---- MODULE Spec2Model ----
(***************************************************************************)
(* Model of the typed API client (src/lib/api/client.ts) and of the error  *)
(* normalizer (src/lib/api/errors.ts).                                     *)
(*                                                                         *)
(* JavaScript values are records tagged with their typeof-class in field   *)
(* t: undefined, null, boolean, number, string, object.  An object carries *)
(* its own enumerable properties in props; reading a property that is not  *)
(* there gives undefined, as in JavaScript.                                *)
(***************************************************************************)
EXTENDS Integers, Sequences, FiniteSets, TLC

VARIABLES input, result, BASE_URL, opts, calls, form

vars == <<input, result, BASE_URL, opts, calls, form>>

----------------------------------------------------------------------------
(* Bounds *)

\* statuses handed to toApiError range over 0..MaxStatus
MaxStatus == 599

----------------------------------------------------------------------------
(* JavaScript values *)

Undef == [t |-> "undefined"]

Null == [t |-> "null"]

Str(s) == [t |-> "string", s |-> s]

Num(n) == [t |-> "number", n |-> n]

Bool(b) == [t |-> "boolean", b |-> b]

Obj(p) == [t |-> "object", props |-> p]

\* typeof v
Typeof(v) == IF v.t = "null" THEN "object" ELSE v.t

\* !!v
Truthy(v) ==
    CASE v.t = "undefined" -> FALSE
      [] v.t = "null" -> FALSE
      [] v.t = "boolean" -> v.b
      [] v.t = "number" -> v.n # 0
      [] v.t = "string" -> v.s # ""
      [] OTHER -> TRUE

\* v is null or undefined: the left operand test of ??
Nullish(v) == v.t \in {"undefined", "null"}

\* o.k for an object o
Prop(o, k) == IF k \in DOMAIN o.props THEN o.props[k] ELSE Undef

----------------------------------------------------------------------------
(* errors.ts *)

ApiErrorCode ==
    {"UNAUTHORIZED", "FORBIDDEN", "NOT_FOUND", "PURCHASE_REQUIRED", "EXPIRED",
     "VALIDATION_ERROR", "SERVER_ERROR", "NETWORK_ERROR", "UNKNOWN_ERROR"}

isServerErrorShape(errData) ==
    IF Typeof(errData) # "object" \/ errData = Null
    THEN FALSE
    ELSE LET err == Prop(errData, "error")
         IN  /\ Truthy(err)
             /\ Typeof(err) = "object"
             /\ Typeof(Prop(err, "code")) = "string"

\* the 5xx test written with > instead of >=
mapHttpStatusToCode_Above500(status) ==
    IF status = 400 THEN "VALIDATION_ERROR"
    ELSE IF status = 401 THEN "UNAUTHORIZED"
    ELSE IF status = 403 THEN "FORBIDDEN"
    ELSE IF status = 404 THEN "NOT_FOUND"
    ELSE IF status = 410 THEN "EXPIRED"
    ELSE IF status > 500 THEN "SERVER_ERROR"
    ELSE "UNKNOWN_ERROR"

mapHttpStatusToCode(status) ==
    IF status = 400 THEN "VALIDATION_ERROR"
    ELSE IF status = 401 THEN "UNAUTHORIZED"
    ELSE IF status = 403 THEN "FORBIDDEN"
    ELSE IF status = 404 THEN "NOT_FOUND"
    ELSE IF status = 410 THEN "EXPIRED"
    ELSE IF status >= 500 THEN "SERVER_ERROR"
    ELSE "UNKNOWN_ERROR"

\* the message literals of the source, transliterated to ASCII
MsgCommFailed == "tsuushin ni shippai shimashita"

MsgServerError == "saabaa eraa ga hassei shimashita."

MsgNetworkError == "nettowaaku eraa ga hassei shimashita."

\* a ?? b on JavaScript values
Coalesce(a, b) == IF Nullish(a) THEN b ELSE a

\* the status table is consulted before the body
toApiError_StatusFirst(status, body, fallbackMessage) ==
    IF Typeof(status) = "number"
    THEN [code |-> mapHttpStatusToCode(status.n),
          message |-> Coalesce(fallbackMessage, Str("ERROR")),
          status |-> status,
          details |-> body]
    ELSE [code |-> "NETWORK_ERROR",
          message |-> Coalesce(fallbackMessage, Str(MsgCommFailed)),
          status |-> Undef,
          details |-> body]

toApiError(status, body, fallbackMessage) ==
    IF isServerErrorShape(body)
    THEN LET code == Prop(Prop(body, "error"), "code")
         IN  [code |-> IF Nullish(code)
                       THEN (IF Truthy(status)
                             THEN mapHttpStatusToCode(status.n)
                             ELSE "UNKNOWN_ERROR")
                       ELSE code.s,
              message |-> Coalesce(Prop(Prop(body, "error"), "message"),
                                   Coalesce(fallbackMessage, Str("UNKOWN_ERROR"))),
              status |-> status,
              details |-> body]
    ELSE IF Typeof(status) = "number"
    THEN [code |-> mapHttpStatusToCode(status.n),
          message |-> Coalesce(fallbackMessage, Str("ERROR")),
          status |-> status,
          details |-> body]
    ELSE [code |-> "NETWORK_ERROR",
          message |-> Coalesce(fallbackMessage, Str(MsgCommFailed)),
          status |-> Undef,
          details |-> body]

----------------------------------------------------------------------------
(* Inputs of the normalizer *)

\* error.code strings a server may send: the taxonomy, the empty string and a
\* code outside the taxonomy
ServerCodes == ApiErrorCode \cup {"", "RATE_LIMITED"}

\* values of body.error that carry a string code, with and without a message
StructuredErrors ==
    {Obj([code |-> Str(c)]) : c \in ServerCodes}
      \cup {Obj([code |-> Str(c), message |-> Str("from server")]) : c \in ServerCodes}

StructuredBodies == {Obj([error |-> e]) : e \in StructuredErrors}

\* bodies that do not have the shape { error: { code: string } }
UnstructuredBodies ==
    {Undef, Null, Str(""), Str("<html>Bad Gateway</html>"), Num(0),
     Obj([ok |-> Bool(TRUE)]),
     Obj([error |-> Null]),
     Obj([error |-> Str("FORBIDDEN")]),
     Obj([error |-> Num(0)]),
     Obj([error |-> Obj([message |-> Str("no code")])]),
     Obj([error |-> Obj([code |-> Num(403)])]),
     Obj([error |-> Obj([code |-> Null, message |-> Str("null code")])])}

Bodies == StructuredBodies \cup UnstructuredBodies

StatusInputs == {Undef} \cup {Num(n) : n \in 0..MaxStatus}

FallbackInputs == {Undef, Str(MsgServerError)}

NormalizerInputs ==
    [status : StatusInputs, body : Bodies, fallbackMessage : FallbackInputs]

----------------------------------------------------------------------------
(* The normalizer applied to one input *)

\* no page is mounted
NoForm == [page |-> "none"]

NoOpts == [credentials |-> Undef, headers |-> Undef]

InitNormalizer ==
    /\ input \in NormalizerInputs
    /\ result = << >>
    /\ BASE_URL = Undef
    /\ opts = NoOpts
    /\ calls = << >>
    /\ form = NoForm

Classify ==
    /\ result = << >>
    /\ result' = <<toApiError(input.status, input.body, input.fallbackMessage)>>
    /\ UNCHANGED <<input, BASE_URL, opts, calls, form>>

NextNormalizer == Classify

SpecNormalizer == InitNormalizer /\ [][NextNormalizer]_vars

Classified == Len(result) = 1

----------------------------------------------------------------------------
(* Claims about the normalizer, checked under SpecNormalizer *)

\* the status table of the specification, written out
StatusTable(n) ==
    CASE n = 400 -> "VALIDATION_ERROR"
      [] n = 401 -> "UNAUTHORIZED"
      [] n = 403 -> "FORBIDDEN"
      [] n = 404 -> "NOT_FOUND"
      [] n = 410 -> "EXPIRED"
      [] n >= 500 -> "SERVER_ERROR"
      [] OTHER -> "UNKNOWN_ERROR"

\* the error.code string of a structured body
BodyCode(b) == b.props.error.props.code.s

\* C1: for a numeric status and a body that does not have the structured
\* shape, the code of the result is the one the status table gives: 400, 401,
\* 403, 404, 410 map to their codes, every status >= 500 to SERVER_ERROR and
\* every other status to UNKNOWN_ERROR.
C1_StatusTable ==
    (Classified /\ input.status.t = "number" /\ input.body \in UnstructuredBodies)
        => result[1].code = StatusTable(input.status.n)

C1_Witness ==
    /\ Classified
    /\ input.status = Num(500)
    /\ input.body = Obj([error |-> Obj([code |-> Num(403)])])
    /\ result[1].code = "SERVER_ERROR"

\* C2: for a numeric status and a structured body whose error.code is a code
\* of the taxonomy, the result carries that code (not the one of the status
\* table), the status that was given, and the raw body as details.
C2_StructuredCodeWins ==
    (/\ Classified
     /\ input.status.t = "number"
     /\ input.body \in StructuredBodies
     /\ BodyCode(input.body) \in ApiErrorCode)
        => /\ result[1].code = BodyCode(input.body)
           /\ result[1].status = input.status
           /\ result[1].details = input.body

C2_Witness ==
    /\ Classified
    /\ input.status = Num(403)
    /\ input.body = Obj([error |-> Obj([code |-> Str("PURCHASE_REQUIRED")])])
    /\ result[1].code = "PURCHASE_REQUIRED"
    /\ StatusTable(403) = "FORBIDDEN"

\* C3: when no status is supplied the code of the result is NETWORK_ERROR,
\* whatever the body is, a structured body included.
C3_NoStatusIsNetworkError ==
    (Classified /\ input.status = Undef) => result[1].code = "NETWORK_ERROR"

\* C4: the code of every result is one of the nine codes of the taxonomy, for
\* every status and body, a structured body with any error.code included.
C4_CodeInTaxonomy ==
    Classified => result[1].code \in ApiErrorCode

\* C9: for a structured body whose error.code is the empty string the code of
\* the result is the one the status table gives when a status is present and
\* UNKNOWN_ERROR when none is; it is never the empty string.
C9_EmptyCodeFallsBack ==
    (Classified /\ input.body \in StructuredBodies /\ BodyCode(input.body) = "")
        => /\ result[1].code # ""
           /\ result[1].code = IF input.status.t = "number"
                                THEN StatusTable(input.status.n)
                                ELSE "UNKNOWN_ERROR"

----------------------------------------------------------------------------
(* client.ts: values *)

\* Strings that the client builds (URLs, serialized bodies, content types) are
\* sequences of tokens, so that concatenation and substring tests are real.

\* a header record: a function from the header names it has to their values
NoHeaders == [n \in {} |-> ""]

\* { ...a, ...b } on header records
Spread(a, b) ==
    [n \in (DOMAIN a) \cup (DOMAIN b) |-> IF n \in DOMAIN b THEN b[n] ELSE a[n]]

\* the per-instance headers win over the per-call ones
mergeHeaders_InstanceWins(optsHeaders, initHeaders) ==
    Spread(Spread([n \in {"Content-Type"} |-> "application/json"],
                  IF Truthy(initHeaders) THEN initHeaders.props ELSE NoHeaders),
           Coalesce(optsHeaders, Obj(NoHeaders)).props)

\* lines 47-51: the built-in default, then this.opts.headers, then init.headers
mergeHeaders(optsHeaders, initHeaders) ==
    Spread(Spread([n \in {"Content-Type"} |-> "application/json"],
                  Coalesce(optsHeaders, Obj(NoHeaders)).props),
           IF Truthy(initHeaders) THEN initHeaders.props ELSE NoHeaders)

\* the instance default is consulted before the per-call value
resolveCredentials_InstanceFirst(optsCredentials, initCredentials) ==
    Coalesce(optsCredentials, Coalesce(initCredentials, Str("include")))

\* line 58
resolveCredentials(optsCredentials, initCredentials) ==
    Coalesce(initCredentials, Coalesce(optsCredentials, Str("include")))

\* a string value given by its tokens
Text(tokens) == [t |-> "string", tokens |-> tokens]

\* `${v}` for a value that is a token string or undefined
Template(v) == IF v = Undef THEN <<"undefined">> ELSE v.tokens

\* line 40
buildUrl(base, path) == Template(base) \o path

\* Response.ok
ResponseOk(status) == status >= 200 /\ status <= 299

\* contentType.includes("application/json") on a token string
IncludesJson(contentType) ==
    \E i \in 1..Len(contentType) : contentType[i] = "application/json"

NoContentType == [has |-> FALSE, tokens |-> << >>]

ContentType(tokens) == [has |-> TRUE, tokens |-> tokens]

\* res.headers.get("content-type") ?? ""
ContentTypeOf(res) ==
    IF res.contentType.has THEN res.contentType.tokens ELSE << >>

NoBody == [present |-> FALSE, text |-> << >>]

NoRequest ==
    [url |-> << >>, method |-> Undef, body |-> NoBody,
     headers |-> NoHeaders, credentials |-> Undef]

NoResponse ==
    [status |-> 0, contentType |-> NoContentType,
     wire |-> [readable |-> FALSE, text |-> ""]]

NoInit ==
    [method |-> Undef, body |-> NoBody, headers |-> Undef, credentials |-> Undef]

NoError == [shape |-> "none"]

\* an ApiError that was thrown
Thrown(e) ==
    [shape |-> "ApiError", code |-> e.code, message |-> e.message,
     status |-> e.status, details |-> e.details]

IdleCall ==
    [pc |-> "idle", entry |-> "none", path |-> << >>, data |-> Undef,
     init |-> NoInit, sent |-> NoRequest, fetchCalls |-> 0,
     res |-> NoResponse, body |-> Null, steps |-> << >>,
     outcome |-> "pending", value |-> Undef, error |-> NoError]

----------------------------------------------------------------------------
(* JSON.stringify, Response.json() and Response.text() *)

\* a back-reference inside a circular object
Cycle == [t |-> "cycle"]

BigInt(n) == [t |-> "bigint", n |-> n]

Function == [t |-> "function"]

\* the order in which the objects of the model list their own keys
PropertyOrder == <<"email", "password", "productId", "self">>

RECURSIVE StringifyThrows(_)
\* JSON.stringify(v) throws a TypeError: a BigInt or a circular structure
StringifyThrows(v) ==
    \/ v.t \in {"bigint", "cycle"}
    \/ /\ v.t = "object"
       /\ \E k \in DOMAIN v.props : StringifyThrows(v.props[k])

\* JSON.stringify(v) is undefined
StringifyUndefined(v) == v.t \in {"undefined", "function"}

RECURSIVE StringifyText(_)
RECURSIVE StringifyMembers(_, _, _)
\* the members of object v from key position i on; first tells whether a
\* member was already written
StringifyMembers(v, i, first) ==
    IF i > Len(PropertyOrder) THEN << >>
    ELSE LET k == PropertyOrder[i]
         IN  IF k \in DOMAIN v.props /\ ~StringifyUndefined(v.props[k])
             THEN (IF first THEN << >> ELSE <<",">>)
                    \o <<"\"", k, "\"", ":">>
                    \o StringifyText(v.props[k])
                    \o StringifyMembers(v, i + 1, FALSE)
             ELSE StringifyMembers(v, i + 1, first)

\* the text JSON.stringify(v) gives when it neither throws nor is undefined
StringifyText(v) ==
    CASE v.t = "null" -> <<"null">>
      [] v.t = "boolean" -> IF v.b THEN <<"true">> ELSE <<"false">>
      [] v.t = "number" -> <<ToString(v.n)>>
      [] v.t = "string" -> <<"\"", v.s, "\"">>
      [] v.t = "object" -> <<"{">> \o StringifyMembers(v, 1, TRUE) \o <<"}">>

\* what the body of a response is on the wire: whether its stream can be read
\* to the end, and its text
Wire(readable, text) == [readable |-> readable, text |-> text]

\* JSON.parse on the texts of the model; the others are not JSON
JsonTexts ==
    {"{\"user\":{\"id\":\"u1\"}}",
     "{\"error\":{\"code\":\"UNAUTHORIZED\"}}",
     "{\"error\":{\"code\":\"PURCHASE_REQUIRED\",\"message\":\"buy it first\"}}",
     "null"}

JsonParse(text) ==
    CASE text = "{\"user\":{\"id\":\"u1\"}}" ->
            Obj([user |-> Obj([id |-> Str("u1")])])
      [] text = "{\"error\":{\"code\":\"UNAUTHORIZED\"}}" ->
            Obj([error |-> Obj([code |-> Str("UNAUTHORIZED")])])
      [] text = "{\"error\":{\"code\":\"PURCHASE_REQUIRED\",\"message\":\"buy it first\"}}" ->
            Obj([error |-> Obj([code |-> Str("PURCHASE_REQUIRED"),
                                message |-> Str("buy it first")])])
      [] text = "null" -> Null

\* res.json() rejects: the stream fails or the text is not JSON
JsonRejects(wire) == ~wire.readable \/ wire.text \notin JsonTexts

\* res.text() rejects: the stream fails
TextRejects(wire) == ~wire.readable

\* a JSON parse failure keeps the raw text as the body
decodeJson_KeepsText(wire) ==
    IF JsonRejects(wire) THEN Str(wire.text) ELSE JsonParse(wire.text)

\* lines 82-87
decodeJson(wire) ==
    IF JsonRejects(wire) THEN Null ELSE JsonParse(wire.text)

\* lines 90-94
decodeText(wire) ==
    IF TextRejects(wire) THEN Null ELSE Str(wire.text)

----------------------------------------------------------------------------
(* client.ts: inputs *)

CallIds == {1}

BaseUrls == {Undef, Text(<<"https://api.example.com">>)}

\* header records given as options of an instance
InstanceHeaders ==
    {Undef,
     Obj([n \in {"X-Client"} |-> "web"]),
     Obj([n \in {"Content-Type", "X-Client"} |->
            IF n = "Content-Type" THEN "text/plain" ELSE "web"])}

\* header records given with one call
CallHeaders ==
    {Undef,
     Obj(NoHeaders),
     Obj([n \in {"Content-Type"} |-> "application/x-www-form-urlencoded"]),
     Obj([n \in {"content-type"} |-> "text/plain"]),
     Obj([n \in {"X-Client", "X-Trace"} |-> IF n = "X-Client" THEN "call" ELSE "t1"])}

HeaderNames == {"Content-Type", "content-type", "X-Client", "X-Trace"}

\* new ApiClient(opts), among them the shared apiClient of line 134
ClientOptions ==
    [credentials : {Undef, Str("omit"), Str("include")}, headers : InstanceHeaders]

Paths == {<<"/auth/signin">>, <<"wishlist/", "p%2F1">>}

\* the data given to post
PostData ==
    {Undef, Null, Bool(FALSE), Num(0), Str(""),
     Obj([email |-> Str("a@b.c"), password |-> Str("pw")]),
     Obj([productId |-> Str("p1"), self |-> Cycle]),
     BigInt(1),
     Function}

\* the init given to a direct call of request
RequestInits ==
    [method : {Undef}, body : {NoBody}, headers : CallHeaders,
     credentials : {Undef, Str("same-origin")}]

\* values with which fetch rejects
FetchFailures ==
    {Obj([name |-> Str("TypeError"), message |-> Str("Failed to fetch")]),
     Str("offline"),
     Undef,
     Obj([error |-> Obj([code |-> Str("FORBIDDEN"), message |-> Str("proxy denied")])])}

ResponseStatuses == {200, 299, 300, 401, 403, 418, 500}

\* the content-type header of a response: absent, or its value
ContentTypes ==
    {NoContentType,
     ContentType(<<"application/json", "; charset=utf-8">>),
     ContentType(<<"text/html">>)}

WireBodies ==
    {Wire(TRUE, "{\"user\":{\"id\":\"u1\"}}"),
     Wire(TRUE, "{\"error\":{\"code\":\"UNAUTHORIZED\"}}"),
     Wire(TRUE, "{\"error\":{\"code\":\"PURCHASE_REQUIRED\",\"message\":\"buy it first\"}}"),
     Wire(TRUE, "<html>Bad Gateway</html>"),
     Wire(TRUE, ""),
     Wire(FALSE, "{\"user\":{\"id\":\"u1\"}}")}

Responses ==
    [status : ResponseStatuses, contentType : ContentTypes, wire : WireBodies]

----------------------------------------------------------------------------
(* client.ts: the request lifecycle *)

\* the rejection carries no status
settle_DropsStatus(call, body) ==
    IF ~ResponseOk(call.res.status)
    THEN [call EXCEPT !.pc = "done", !.body = body, !.outcome = "rejected",
                      !.error = Thrown(toApiError(Undef, body, Str(MsgServerError)))]
    ELSE [call EXCEPT !.pc = "done", !.body = body, !.outcome = "resolved",
                      !.value = body]

\* the status tested is the one of the response the first call received, as
\* if the response were kept in a field of the instance
settle_SharedResponse(call, body) ==
    IF ~ResponseOk(calls[1].res.status)
    THEN [call EXCEPT !.pc = "done", !.body = body, !.outcome = "rejected",
                      !.error = Thrown(toApiError(Num(calls[1].res.status), body,
                                                  Str(MsgServerError)))]
    ELSE [call EXCEPT !.pc = "done", !.body = body, !.outcome = "resolved",
                      !.value = body]

\* lines 97-109: reject with the normalized error unless res.ok, else return
\* the body
settle(call, body) ==
    IF ~ResponseOk(call.res.status)
    THEN [call EXCEPT !.pc = "done", !.body = body, !.outcome = "rejected",
                      !.error = Thrown(toApiError(Num(call.res.status), body,
                                                  Str(MsgServerError)))]
    ELSE [call EXCEPT !.pc = "done", !.body = body, !.outcome = "resolved",
                      !.value = body]

\* lines 37-67: request up to the point where it awaits fetch
request(call, entry, path, data, init) ==
    [call EXCEPT
        !.pc = "fetch",
        !.entry = entry,
        !.path = path,
        !.data = data,
        !.init = init,
        !.sent = [url |-> buildUrl(BASE_URL, path),
                  method |-> init.method,
                  body |-> init.body,
                  headers |-> mergeHeaders(opts.headers, init.headers),
                  credentials |-> resolveCredentials(opts.credentials,
                                                     init.credentials)],
        !.fetchCalls = @ + 1,
        !.steps = Append(@, "fetch")]

\* lines 113-115
Get(c, path) ==
    /\ calls[c].pc = "idle"
    /\ calls' = [calls EXCEPT ![c] =
                    request(@, "get", path, Undef, [NoInit EXCEPT !.method = Str("GET")])]
    /\ UNCHANGED <<input, result, BASE_URL, opts, form>>

\* lines 118-124: what post makes of a call; JSON.stringify runs before
\* request is entered
post(call, path, data) ==
    IF data # Undef /\ StringifyThrows(data)
    THEN [call EXCEPT !.pc = "done", !.entry = "post", !.path = path,
                      !.data = data, !.outcome = "threw",
                      !.error = [shape |-> "TypeError"],
                      !.steps = Append(@, "stringify-threw")]
    ELSE request(call, "post", path, data,
                 [NoInit EXCEPT
                    !.method = Str("POST"),
                    !.body = IF data = Undef \/ StringifyUndefined(data)
                             THEN NoBody
                             ELSE [present |-> TRUE,
                                   text |-> StringifyText(data)]])

\* lines 118-124
Post(c, path, data) ==
    /\ calls[c].pc = "idle"
    /\ calls' = [calls EXCEPT ![c] = post(@, path, data)]
    /\ UNCHANGED <<input, result, BASE_URL, opts, form>>

\* lines 127-129
Delete(c, path) ==
    /\ calls[c].pc = "idle"
    /\ calls' = [calls EXCEPT ![c] =
                    request(@, "delete", path, Undef,
                            [NoInit EXCEPT !.method = Str("DELETE")])]
    /\ UNCHANGED <<input, result, BASE_URL, opts, form>>

\* request called directly, with per-call headers and credentials
Request(c, path, init) ==
    /\ calls[c].pc = "idle"
    /\ calls' = [calls EXCEPT ![c] = request(@, "request", path, Undef, init)]
    /\ UNCHANGED <<input, result, BASE_URL, opts, form>>

\* lines 68-72: fetch rejected with e
FetchRejects(c, e) ==
    /\ calls[c].pc = "fetch"
    /\ calls' = [calls EXCEPT ![c] =
                    [@ EXCEPT !.pc = "done", !.outcome = "rejected",
                              !.error = Thrown(toApiError(Undef, e, Str(MsgNetworkError))),
                              !.steps = Append(@, "fetch-rejected")]]
    /\ UNCHANGED <<input, result, BASE_URL, opts, form>>

\* lines 74-83, 91: fetch gave a response; its body is read as JSON or as text
FetchResolves(c, res) ==
    /\ calls[c].pc = "fetch"
    /\ calls' = [calls EXCEPT ![c] =
                    [@ EXCEPT !.pc = IF IncludesJson(ContentTypeOf(res))
                                     THEN "json" ELSE "text",
                              !.res = res,
                              !.steps = Append(@, "response")]]
    /\ UNCHANGED <<input, result, BASE_URL, opts, form>>

\* lines 82-87 and 97-109: res.json() settled
ReadJson(c) ==
    /\ calls[c].pc = "json"
    /\ calls' = [calls EXCEPT ![c] =
                    settle([@ EXCEPT !.steps =
                                Append(@, IF JsonRejects(calls[c].res.wire)
                                          THEN "json-rejected" ELSE "json-resolved")],
                           decodeJson(calls[c].res.wire))]
    /\ UNCHANGED <<input, result, BASE_URL, opts, form>>

\* lines 90-94 and 97-109: res.text() settled
ReadText(c) ==
    /\ calls[c].pc = "text"
    /\ calls' = [calls EXCEPT ![c] =
                    settle([@ EXCEPT !.steps =
                                Append(@, IF TextRejects(calls[c].res.wire)
                                          THEN "text-rejected" ELSE "text-resolved")],
                           decodeText(calls[c].res.wire))]
    /\ UNCHANGED <<input, result, BASE_URL, opts, form>>

NoInput == [status |-> Undef, body |-> Undef, fallbackMessage |-> Undef]

Init ==
    /\ input = NoInput
    /\ result = << >>
    /\ BASE_URL \in BaseUrls
    /\ opts \in ClientOptions
    /\ calls = [c \in CallIds |-> IdleCall]
    /\ form = NoForm

Next ==
    \E c \in CallIds :
        \/ \E path \in Paths : Get(c, path)
        \/ \E path \in Paths, data \in PostData : Post(c, path, data)
        \/ \E path \in Paths : Delete(c, path)
        \/ \E path \in Paths, init \in RequestInits : Request(c, path, init)
        \/ \E e \in FetchFailures : FetchRejects(c, e)
        \/ \E res \in Responses : FetchResolves(c, res)
        \/ ReadJson(c)
        \/ ReadText(c)

Spec == Init /\ [][Next]_vars

----------------------------------------------------------------------------
(* Claims about the client, checked under Spec *)

Last(seq) == seq[Len(seq)]

\* the call has run to its end after fetch gave a response
Responded(call) ==
    call.pc = "done" /\ \E i \in 1..Len(call.steps) : call.steps[i] = "response"

\* the body is an object with an error field that is an object with a string
\* code
Structured(body) ==
    /\ body.t = "object"
    /\ "error" \in DOMAIN body.props
    /\ body.props.error.t = "object"
    /\ "code" \in DOMAIN body.props.error.props
    /\ body.props.error.props.code.t = "string"

\* the message the normalizer is to give for a body and a fallback
ExpectedMessage(body, fallback) ==
    IF Structured(body) /\ "message" \in DOMAIN body.props.error.props
    THEN body.props.error.props.message
    ELSE Str(fallback)

\* C5: a response with a status outside 200..299 rejects the call with the
\* error toApiError gives for the status, the decoded body and the generic
\* message, and that error carries the status of the response; a response
\* with a status in 200..299 resolves the call with the decoded body.
C5_StatusDecidesOutcome ==
    \A c \in DOMAIN calls :
        Responded(calls[c]) =>
            LET call == calls[c]
                st == call.res.status
            IN  IF st < 200 \/ st > 299
                THEN /\ call.outcome = "rejected"
                     /\ call.error.shape = "ApiError"
                     /\ call.error.status = Num(st)
                     /\ call.error.details = call.body
                     /\ call.error.message = ExpectedMessage(call.body, MsgServerError)
                     /\ call.error.code = IF Structured(call.body)
                                          THEN BodyCode(call.body)
                                          ELSE StatusTable(st)
                ELSE /\ call.outcome = "resolved"
                     /\ call.value = call.body
                     /\ call.error.shape = "none"

C5_Witness ==
    \E c \in DOMAIN calls :
        /\ Responded(calls[c])
        /\ calls[c].res.status = 401
        /\ calls[c].body = Obj([error |-> Obj([code |-> Str("UNAUTHORIZED")])])
        /\ calls[c].outcome = "rejected"
        /\ calls[c].error.code = "UNAUTHORIZED"
        /\ calls[c].error.status = Num(401)

\* C6: when fetch rejects, the call rejects with an ApiError of code
\* NETWORK_ERROR and no status, whatever value fetch rejected with; fetch was
\* called once and no body was decoded.
C6_FetchFailureIsNetworkError ==
    \A c \in DOMAIN calls :
        (calls[c].pc = "done" /\ Last(calls[c].steps) = "fetch-rejected") =>
            /\ calls[c].outcome = "rejected"
            /\ calls[c].error.shape = "ApiError"
            /\ calls[c].error.code = "NETWORK_ERROR"
            /\ calls[c].error.status = Undef
            /\ calls[c].fetchCalls = 1
            /\ calls[c].steps = <<"fetch", "fetch-rejected">>

\* C7: whatever makes a get, post or delete call fail, what reaches the
\* caller is an ApiError.
C7_OnlyApiErrorEscapes ==
    \A c \in DOMAIN calls :
        (calls[c].entry \in {"get", "post", "delete"}
            /\ calls[c].outcome \in {"rejected", "threw"})
            => calls[c].error.shape = "ApiError"

\* the body of the response could not be decoded the way its content type asks
Undecodable(res) ==
    IF \E i \in 1..Len(res.contentType.tokens) :
            res.contentType.tokens[i] = "application/json"
    THEN ~res.wire.readable \/ res.wire.text \notin JsonTexts
    ELSE ~res.wire.readable

\* C8: when the body of a response cannot be decoded (JSON content type and
\* the parse fails, or another content type and the read fails) the decoded
\* body is null; with a 2xx status the call resolves with null, with another
\* status it rejects with the code the status table gives.
C8_DecodingNeverFails ==
    \A c \in DOMAIN calls :
        (Responded(calls[c]) /\ Undecodable(calls[c].res)) =>
            LET call == calls[c]
                st == call.res.status
            IN  /\ call.body = Null
                /\ (st >= 200 /\ st <= 299)
                      => call.outcome = "resolved" /\ call.value = Null
                /\ ~(st >= 200 /\ st <= 299)
                      => /\ call.outcome = "rejected"
                         /\ call.error.shape = "ApiError"
                         /\ call.error.code = StatusTable(st)

C8_Witness ==
    \E c \in DOMAIN calls :
        /\ Responded(calls[c])
        /\ calls[c].res.status = 500
        /\ calls[c].res.contentType = ContentType(<<"application/json", "; charset=utf-8">>)
        /\ calls[c].res.wire = Wire(TRUE, "<html>Bad Gateway</html>")
        /\ calls[c].body = Null
        /\ calls[c].error.code = "SERVER_ERROR"

\* the header record h has an entry for name n
Supplies(h, n) == h.t = "object" /\ n \in DOMAIN h.props

C11_CredentialPrecedence ==
    \A c \in DOMAIN calls :
        calls[c].fetchCalls > 0 =>
            LET call == calls[c]
            IN  /\ call.sent.credentials =
                      IF call.init.credentials # Undef THEN call.init.credentials
                      ELSE IF opts.credentials # Undef THEN opts.credentials
                      ELSE Str("include")
                /\ (call.entry \in {"get", "post", "delete"}
                        /\ opts.credentials \in {Undef, Str("include")})
                      => call.sent.credentials = Str("include")

C11_Witness ==
    \E c \in DOMAIN calls :
        /\ calls[c].fetchCalls > 0
        /\ calls[c].entry = "request"
        /\ opts.credentials = Str("omit")
        /\ calls[c].init.credentials = Str("same-origin")
        /\ calls[c].sent.credentials = Str("same-origin")

\* C13: get and delete issue one fetch with method GET resp. DELETE and no
\* body; post issues one fetch with method POST whose body is the JSON
\* serialization of data when data is not undefined, and has no body when
\* data is omitted; the target is the base URL followed by the path as given.
C13_OneTransportCall ==
    \A c \in DOMAIN calls :
        calls[c].entry \in {"get", "post", "delete"} =>
            LET call == calls[c]
            IN  /\ call.fetchCalls = 1
                /\ call.sent.url =
                      (IF BASE_URL = Undef THEN <<"undefined">> ELSE BASE_URL.tokens)
                        \o call.path
                /\ call.entry = "get"
                      => call.sent.method = Str("GET") /\ ~call.sent.body.present
                /\ call.entry = "delete"
                      => call.sent.method = Str("DELETE") /\ ~call.sent.body.present
                /\ call.entry = "post"
                      => /\ call.sent.method = Str("POST")
                         /\ call.data = Undef => ~call.sent.body.present
                         /\ call.data # Undef
                               => /\ call.sent.body.present
                                  /\ call.sent.body.text = StringifyText(call.data)

----------------------------------------------------------------------------
(* endpoints.ts: buildQuery and productsApi.list *)

\* an array value
Arr(items) == [t |-> "array", items |-> items]

RECURSIVE StringOf(_)
RECURSIVE JoinItems(_, _)
\* Array.prototype.join(","): null and undefined elements give the empty string
JoinItems(items, i) ==
    IF i > Len(items) THEN << >>
    ELSE (IF i > 1 THEN <<",">> ELSE << >>)
           \o (IF Nullish(items[i]) THEN << >> ELSE StringOf(items[i]))
           \o JoinItems(items, i + 1)

\* String(v), as tokens
StringOf(v) ==
    CASE v.t = "undefined" -> <<"undefined">>
      [] v.t = "null" -> <<"null">>
      [] v.t = "boolean" -> IF v.b THEN <<"true">> ELSE <<"false">>
      [] v.t = "number" -> <<ToString(v.n)>>
      [] v.t = "string" -> v.tokens
      [] v.t = "array" -> JoinItems(v.items, 1)

\* URLSearchParams.append
SpAppend(sp, k, v) == Append(sp, <<k, v>>)

\* the entries of sp without those of name k after position i
RECURSIVE DropName(_, _, _)
DropName(sp, k, i) ==
    IF sp = << >> THEN << >>
    ELSE (IF i > 0 \/ sp[1][1] # k THEN <<sp[1]>> ELSE << >>)
           \o DropName(Tail(sp), k, i - 1)

\* URLSearchParams.set: the first entry of that name gets the value and the
\* other entries of that name go; without such an entry the pair is appended
SpSet(sp, k, v) ==
    IF \E i \in 1..Len(sp) : sp[i][1] = k
    THEN LET first == CHOOSE i \in 1..Len(sp) :
                          sp[i][1] = k /\ \A j \in 1..(i - 1) : sp[j][1] # k
         IN  DropName([sp EXCEPT ![first] = <<k, v>>], k, first)
    ELSE Append(sp, <<k, v>>)

\* the application/x-www-form-urlencoded form of one token: a space becomes
\* "+", the other characters outside the unreserved set are percent-encoded
EncodeToken(tok) ==
    CASE tok = " " -> "+"
      [] tok = "&" -> "%26"
      [] tok = "=" -> "%3D"
      [] tok = "," -> "%2C"
      [] tok = "+" -> "%2B"
      [] OTHER -> tok

FormEncode(tokens) == [i \in 1..Len(tokens) |-> EncodeToken(tokens[i])]

RECURSIVE SpToString(_, _)
\* URLSearchParams.toString from entry i on
SpToString(sp, i) ==
    IF i > Len(sp) THEN << >>
    ELSE (IF i > 1 THEN <<"&">> ELSE << >>)
           \o FormEncode(sp[i][1]) \o <<"=">> \o FormEncode(sp[i][2])
           \o SpToString(sp, i + 1)

RECURSIVE AppendItems(_, _, _, _)
\* line 99: for (const item of v) sp.append(k, String(item))
AppendItems(sp, k, items, i) ==
    IF i > Len(items) THEN sp
    ELSE AppendItems(SpAppend(sp, k, StringOf(items[i])), k, items, i + 1)

RECURSIVE QueryLoop(_, _, _)
\* lines 92-105: the loop over Object.entries(params), from entry i on
QueryLoop(entries, i, sp) ==
    IF i > Len(entries) THEN sp
    ELSE LET k == entries[i][1]
             v == entries[i][2]
         IN  IF v = Undef \/ v = Null
             THEN QueryLoop(entries, i + 1, sp)
             ELSE IF v.t = "array"
             THEN QueryLoop(entries, i + 1, AppendItems(sp, k, v.items, 1))
             ELSE QueryLoop(entries, i + 1, SpSet(sp, k, StringOf(v)))

\* the "?" is put in front of an empty query too
buildQuery_AlwaysMark(params) ==
    <<"?">> \o SpToString(QueryLoop(params, 1, << >>), 1)

\* lines 89-112; params is given by its Object.entries
buildQuery(params) ==
    LET q == SpToString(QueryLoop(params, 1, << >>), 1)
    IN  IF q # << >> THEN <<"?">> \o q ELSE << >>

\* the shared apiClient: new ApiClient({ credentials: "include" })
SharedOpts == [credentials |-> Str("include"), headers |-> Undef]

\* lines 116-122: productsApi.list(query)
ProductsList(c) ==
    /\ calls[c].pc = "idle"
    /\ result = << >>
    /\ LET qs == buildQuery(input)
       IN  /\ result' = <<qs>>
           /\ calls' = [calls EXCEPT ![c] =
                          request(@, "get", <<"/products">> \o qs, Undef,
                                  [NoInit EXCEPT !.method = Str("GET")])]
    /\ UNCHANGED <<input, BASE_URL, opts, form>>

(* Inputs of buildQuery *)

\* a query has at most MaxFields fields
MaxFields == 3

QueryKeys == {<<"q">>, <<"tags">>, <<"page">>, <<"sort">>}

QueryValues ==
    {Undef, Null,
     Text(<<"a", " ", "b">>), Text(<< >>),
     Num(0), Num(2),
     Arr(<< >>),
     Arr(<<Text(<<"x">>), Text(<<"y", "&", "z">>)>>),
     Arr(<<Text(<<"y">>), Text(<<"x">>), Text(<<"y">>)>>)}

\* the key orders of an object: no key occurs twice
QueryKeyOrders ==
    {ks \in UNION {[1..n -> QueryKeys] : n \in 0..MaxFields} :
        \A i, j \in 1..Len(ks) : i # j => ks[i] # ks[j]}

\* the entries of the objects with the keys ks, in that order
QueryParams(ks) ==
    {[i \in 1..Len(ks) |-> <<ks[i], vs[i]>>] :
        vs \in [1..Len(ks) -> QueryValues]}

InitQuery ==
    /\ \E ks \in QueryKeyOrders : input \in QueryParams(ks)
    /\ result = << >>
    /\ BASE_URL = Text(<<"https://api.example.com">>)
    /\ opts = SharedOpts
    /\ calls = [c \in CallIds |-> IdleCall]
    /\ form = NoForm

NextQuery == \E c \in CallIds : ProductsList(c)

SpecQuery == InitQuery /\ [][NextQuery]_vars

----------------------------------------------------------------------------
(* Claims about buildQuery, checked under SpecQuery *)

\* the pairs a field is to give: none when it has no value, one per element
\* for an array, else one
FieldPairs(k, v) ==
    IF v = Undef \/ v = Null THEN << >>
    ELSE IF v.t = "array"
    THEN [i \in 1..Len(v.items) |-> <<k, StringOf(v.items[i])>>]
    ELSE <<<<k, StringOf(v)>>>>

RECURSIVE ExpectedPairs(_)
ExpectedPairs(entries) ==
    IF entries = << >> THEN << >>
    ELSE FieldPairs(entries[1][1], entries[1][2]) \o ExpectedPairs(Tail(entries))

RECURSIVE JoinPairs(_)
\* key=value pairs joined with "&"
JoinPairs(pairs) ==
    IF pairs = << >> THEN << >>
    ELSE FormEncode(pairs[1][1]) \o <<"=">> \o FormEncode(pairs[1][2])
           \o (IF Len(pairs) > 1 THEN <<"&">> ELSE << >>)
           \o JoinPairs(Tail(pairs))

\* C12: buildQuery gives one key=value pair per scalar field, one pair per
\* element in array order for an array field, none for an undefined or null
\* field; the result is the empty string exactly when there is no pair, else
\* "?" followed by the pairs in field order joined with "&".
C12_QueryString ==
    Classified =>
        LET pairs == ExpectedPairs(input)
        IN  /\ (result[1] = << >>) <=> (pairs = << >>)
            /\ pairs # << >> => result[1] = <<"?">> \o JoinPairs(pairs)

C12_Witness ==
    /\ Classified
    /\ input = <<<<<<"q">>, Text(<<"a", " ", "b">>)>>,
                 <<<<"tags">>, Arr(<<Text(<<"x">>), Text(<<"y", "&", "z">>)>>)>>,
                 <<<<"page">>, Undef>>>>
    /\ result[1] = <<"?", "q", "=", "a", "+", "b", "&", "tags", "=", "x",
                     "&", "tags", "=", "y", "%26", "z">>

\* an input whose only present value is an empty array gives the empty string
C12_WitnessEmpty ==
    /\ Classified
    /\ input = <<<<<<"tags">>, Arr(<< >>)>>, <<<<"q">>, Null>>>>
    /\ result[1] = << >>

----------------------------------------------------------------------------
(* Several calls in flight on one instance *)

\* calls issued on the instance
MaxCalls == 2

ConcurrentOptions ==
    {SharedOpts,
     [credentials |-> Undef, headers |-> Obj([n \in {"X-Client"} |-> "web"])]}

ConcurrentPaths == {<<"/auth/signin">>}

ConcurrentData == {Obj([email |-> Str("a@b.c"), password |-> Str("pw")]), BigInt(1)}

ConcurrentFailures ==
    {Obj([name |-> Str("TypeError"), message |-> Str("Failed to fetch")])}

JsonType == ContentType(<<"application/json", "; charset=utf-8">>)

ConcurrentResponses ==
    {[status |-> 200, contentType |-> JsonType,
      wire |-> Wire(TRUE, "{\"user\":{\"id\":\"u1\"}}")],
     [status |-> 401, contentType |-> JsonType,
      wire |-> Wire(TRUE, "{\"error\":{\"code\":\"UNAUTHORIZED\"}}")],
     [status |-> 403, contentType |-> JsonType,
      wire |-> Wire(TRUE, "{\"error\":{\"code\":\"PURCHASE_REQUIRED\",\"message\":\"buy it first\"}}")],
     [status |-> 299, contentType |-> JsonType,
      wire |-> Wire(FALSE, "{\"user\":{\"id\":\"u1\"}}")],
     [status |-> 500, contentType |-> ContentType(<<"text/html">>),
      wire |-> Wire(TRUE, "<html>Bad Gateway</html>")],
     [status |-> 200, contentType |-> NoContentType,
      wire |-> Wire(FALSE, "")]}

InitConcurrent ==
    /\ input = NoInput
    /\ result = << >>
    /\ BASE_URL = Text(<<"https://api.example.com">>)
    /\ opts \in ConcurrentOptions
    /\ calls = [c \in 1..MaxCalls |-> IdleCall]
    /\ form = NoForm

NextConcurrent ==
    \E c \in 1..MaxCalls :
        \/ \E path \in ConcurrentPaths : Get(c, path)
        \/ \E path \in ConcurrentPaths, data \in ConcurrentData : Post(c, path, data)
        \/ \E path \in ConcurrentPaths : Delete(c, path)
        \/ \E e \in ConcurrentFailures : FetchRejects(c, e)
        \/ \E res \in ConcurrentResponses : FetchResolves(c, res)
        \/ ReadJson(c)
        \/ ReadText(c)

SpecConcurrent == InitConcurrent /\ [][NextConcurrent]_vars

\* what decoding is to make of a response
ExpectedBody(res) ==
    IF \E i \in 1..Len(res.contentType.tokens) :
            res.contentType.tokens[i] = "application/json"
    THEN (IF res.wire.readable /\ res.wire.text \in JsonTexts
          THEN JsonParse(res.wire.text) ELSE Null)
    ELSE (IF res.wire.readable THEN Str(res.wire.text) ELSE Null)

\* the outcome of a finished call is the one its own request and its own
\* response or transport failure give
OwnOutcome(call) ==
    IF Responded(call)
    THEN IF call.res.status >= 200 /\ call.res.status <= 299
         THEN /\ call.outcome = "resolved"
              /\ call.value = ExpectedBody(call.res)
         ELSE /\ call.outcome = "rejected"
              /\ call.error.shape = "ApiError"
              /\ call.error.status = Num(call.res.status)
              /\ call.error.details = ExpectedBody(call.res)
              /\ call.error.code = IF Structured(ExpectedBody(call.res))
                                   THEN BodyCode(ExpectedBody(call.res))
                                   ELSE StatusTable(call.res.status)
    ELSE IF Last(call.steps) = "fetch-rejected"
    THEN /\ call.outcome = "rejected"
         /\ call.error.shape = "ApiError"
         /\ call.error.status = Undef
         /\ call.res = NoResponse
    ELSE /\ call.outcome = "threw"
         /\ call.fetchCalls = 0

\* two finished calls with the same request and the same response or
\* transport failure have the same outcome
SameInSameOut(a, b) ==
    (/\ a.entry = b.entry /\ a.path = b.path /\ a.data = b.data /\ a.init = b.init
     /\ a.res = b.res /\ a.steps = b.steps
     /\ (Last(a.steps) = "fetch-rejected" => a.error.details = b.error.details))
        => a = b

\* C14: with several calls in flight in any interleaving, a step of one call
\* leaves the other calls as they are, the outcome of each call is the one its
\* own request and its own response or transport failure give, and the
\* options of the instance and the base URL stay as constructed.
C14_CallsIndependent ==
    [][/\ opts' = opts
       /\ BASE_URL' = BASE_URL
       /\ \A c \in DOMAIN calls :
             calls'[c] # calls[c] =>
                \A d \in DOMAIN calls \ {c} : calls'[d] = calls[d]
       /\ \A c \in DOMAIN calls :
             calls'[c].pc = "done" => OwnOutcome(calls'[c])
       /\ \A c, d \in DOMAIN calls :
             (calls'[c].pc = "done" /\ calls'[d].pc = "done")
                => SameInSameOut(calls'[c], calls'[d])]_vars

\* one call is settled with a rejection while the other, issued on the same
\* instance, has its 200 response and is still decoding
C14_Witness ==
    /\ calls[1].pc = "json"
    /\ calls[1].res.status = 200
    /\ calls[2].pc = "done"
    /\ calls[2].outcome = "rejected"
    /\ calls[2].res.status = 401
    /\ calls[2].error.code = "UNAUTHORIZED"

----------------------------------------------------------------------------
(* app/sign-in/page.tsx and app/sign-up/page.tsx: handleSubmit *)

\* the fallback messages of the two forms, transliterated to ASCII
MsgSignInFailed == "sainin ni shippai shimashita"

MsgSignUpFailed == "shinki touroku ni shippai shimashita"

\* the message of the TypeError JSON.stringify throws
MsgNotSerializable == "Do not know how to serialize a BigInt"

\* the strings typed into the fields of the forms
FieldStrings == {"", " ", "n", "a@b.c", "pw", "password1", "password2"}

\* s.trim()
Trim(s) == IF s = " " THEN "" ELSE s

\* s.length
Length(s) ==
    CASE s = "" -> 0
      [] s = " " -> 1
      [] s = "n" -> 1
      [] s = "a@b.c" -> 5
      [] s = "pw" -> 2
      [] s = "password1" -> 9
      [] s = "password2" -> 9

\* sign-up lines 27-28
passwordMismatch(f) ==
    Length(f.passwordConfirm) > 0 /\ f.password # f.passwordConfirm

\* sign-up lines 30-31
passwordTooShort(f) ==
    Length(f.password) > 0 /\ Length(f.password) < 8

\* sign-in lines 24-26, sign-up lines 33-43
isDisabled(f) ==
    IF f.page = "sign-in"
    THEN Trim(f.email) = "" \/ Trim(f.password) = "" \/ f.loading
    ELSE \/ Trim(f.name) = ""
         \/ Trim(f.email) = ""
         \/ Trim(f.password) = ""
         \/ Trim(f.passwordConfirm) = ""
         \/ passwordMismatch(f)
         \/ passwordTooShort(f)
         \/ ~f.agree
         \/ f.loading

\* error instanceof Error: an ApiError is an object literal, not an Error
InstanceOfError(error) == error.shape = "TypeError"

\* error.message
MessageOf(error) ==
    IF error.shape = "TypeError" THEN Str(MsgNotSerializable) ELSE error.message

FallbackOf(page) ==
    IF page = "sign-in" THEN MsgSignInFailed ELSE MsgSignUpFailed

\* the message is read from whatever was thrown
generalError_ReadsMessage(page, error) ==
    IF ~Nullish(MessageOf(error)) THEN MessageOf(error) ELSE Str(FallbackOf(page))

\* sign-in line 48, sign-up line 76
generalError(page, error) ==
    IF InstanceOfError(error) THEN MessageOf(error) ELSE Str(FallbackOf(page))

\* sign-in line 44, sign-up line 72: the route given to router.push
RouteOf(page) == IF page = "sign-in" THEN "/" ELSE "/signin"

\* endpoints.ts lines 40-49: the path authApi.signin resp. signup posts to
AuthPath(page) ==
    IF page = "sign-in" THEN <<"/auth/signin">> ELSE <<"/auth/signup">>

\* sign-in lines 45-52, sign-up lines 73-80: catch and finally
Caught(f, error) ==
    [f EXCEPT !.general = generalError(f.page, error),
              !.loading = FALSE,
              !.pc = "idle"]

\* sign-in lines 28-41, sign-up lines 55-68: handleSubmit up to the await
Submit ==
    /\ form.pc = "idle"
    /\ form.pushed = << >>
    /\ ~isDisabled(form)
    /\ LET call == post(IdleCall, AuthPath(form.page),
                        Obj([email |-> Str(form.email),
                             password |-> Str(form.password)]))
       IN  /\ calls' = [calls EXCEPT ![1] = call]
           /\ form' = IF call.outcome = "threw"
                      THEN Caught([form EXCEPT !.general = Undef], call.error)
                      ELSE [form EXCEPT !.loading = TRUE, !.general = Undef,
                                        !.pc = "awaiting"]
    /\ UNCHANGED <<input, result, BASE_URL, opts>>

\* sign-in lines 43-52, sign-up lines 70-80: handleSubmit after the await
Resume ==
    /\ form.pc = "awaiting"
    /\ calls[1].pc = "done"
    /\ form' = IF calls[1].outcome = "resolved"
               THEN [form EXCEPT !.pushed = Append(@, RouteOf(form.page)),
                                 !.loading = FALSE,
                                 !.pc = "idle"]
               ELSE Caught(form, calls[1].error)
    /\ UNCHANGED <<input, result, BASE_URL, opts, calls>>

(* Inputs of the forms *)

\* the sign-in page has no name, confirmation and agreement fields; they keep
\* their placeholder values there
SignInForms ==
    [page : {"sign-in"}, name : {""}, email : {"", "a@b.c"},
     password : {" ", "pw", "password1"}, passwordConfirm : {""},
     agree : {FALSE}, loading : {FALSE}, general : {Undef},
     pushed : {<< >>}, pc : {"idle"}]

SignUpForms ==
    [page : {"sign-up"}, name : {"n", " "}, email : {"a@b.c"},
     password : {"pw", "password1"}, passwordConfirm : {"password1", "password2"},
     agree : BOOLEAN, loading : {FALSE}, general : {Undef},
     pushed : {<< >>}, pc : {"idle"}]

InitForm ==
    /\ input = NoInput
    /\ result = << >>
    /\ BASE_URL = Text(<<"https://api.example.com">>)
    /\ opts = SharedOpts
    /\ calls = [c \in CallIds |-> IdleCall]
    /\ form \in SignInForms \cup SignUpForms

NextForm ==
    \/ Submit
    \/ \E e \in FetchFailures : FetchRejects(1, e)
    \/ \E res \in Responses : FetchResolves(1, res)
    \/ ReadJson(1)
    \/ ReadText(1)
    \/ Resume

SpecForm == InitForm /\ [][NextForm]_vars

\* C15: once handleSubmit has handled a rejection of signin or signup with an
\* ApiError, errors.general is the fixed fallback string of the form, not the
\* message or the code of the ApiError, loading is false and router.push was
\* not called; router.push is called only after the call has resolved.
C15_FormShowsFallback ==
    /\ (form.pc = "idle" /\ calls[1].pc = "done" /\ calls[1].outcome = "rejected")
          => /\ calls[1].error.shape = "ApiError"
             /\ form.general = Str(FallbackOf(form.page))
             /\ form.general # calls[1].error.message
             /\ form.general # Str(calls[1].error.code)
             /\ ~form.loading
             /\ form.pushed = << >>
    /\ form.pushed # << >>
          => /\ calls[1].pc = "done"
             /\ calls[1].outcome = "resolved"
             /\ form.pushed = <<RouteOf(form.page)>>
             /\ ~form.loading

\* the sign-up call was rejected with a server message and the form shows its
\* own fallback
C15_Witness ==
    /\ form.page = "sign-up"
    /\ form.pc = "idle"
    /\ calls[1].outcome = "rejected"
    /\ calls[1].error.code = "PURCHASE_REQUIRED"
    /\ calls[1].error.message = Str("buy it first")
    /\ form.general = Str(MsgSignUpFailed)
    /\ ~form.loading

====
